---- MODULE Spec2Model ----
(***************************************************************************)
(* The LLM router of sentinel-bot: the model registry (llm/registry.py),   *)
(* the cost tracker (llm/cost_tracker.py) and LLMRouter.complete           *)
(* (llm/router.py).  complete() is a coroutine: the code between two       *)
(* awaits of provider.complete runs without interleaving, so one action is *)
(* the call of complete() up to its first provider call, and one action is *)
(* the return of a provider call up to the next provider call or the end.  *)
(* Money is counted in integer units; registry prices are in 1/1000 USD    *)
(* per million tokens, which keeps the order of the float sums.            *)
(* The history variable added records every call of add_cost on the        *)
(* present tracker, with the calendar day it was made on.  The registry is  *)
(* the module-level dict MODEL_REGISTRY, in insertion order; env is the set *)
(* of environment variables that have a value.                             *)
(***************************************************************************)
EXTENDS Integers, Sequences, FiniteSets, TLC

VARIABLES providers, hasTracker, daily_limit, costs, today, call, added,
          registry, env, query

vars == <<providers, hasTracker, daily_limit, costs, today, call, added,
          registry, env, query>>

None == "none"

\* ------------------------------------------------------------------ bounds
MaxLedger == 2
MaxDay == 1
MaxRankLen == 2

Callers == {"a", "b"}
DailyLimits == {0, 5}
CostValues == {1, 4}

\* ------------------------------------------------------------- llm/base.py
ProviderType == {"claude", "openrouter", "local"}

\* ----------------------------------------------------------- llm/router.py
TaskType ==
    {"chat", "reasoning", "simple", "background", "summarization",
     "tool_call", "inter_agent", "fact_extraction", "importance_scoring"}

TASK_DIFFICULTY ==
    [t \in TaskType |->
        CASE t \in {"chat", "reasoning"} -> 3
          [] t \in {"fact_extraction", "summarization", "background"} -> 2
          [] OTHER -> 1]

\* --------------------------------------------------------- llm/registry.py
ModelCapability(id, prov, diff, cin, cout) ==
    [model_id |-> id, provider |-> prov, difficulty |-> diff,
     cost_per_1m_input |-> cin, cost_per_1m_output |-> cout]

MODEL_REGISTRY ==
    << ModelCapability("claude-opus-4-20250514", "claude", 3, 15000, 75000),
       ModelCapability("claude-sonnet-4-20250514", "claude", 3, 3000, 15000),
       ModelCapability("claude-haiku-3-5-20241022", "claude", 2, 800, 4000),
       ModelCapability("anthropic/claude-3.5-sonnet", "openrouter", 3, 3000, 15000),
       ModelCapability("openai/gpt-4-turbo", "openrouter", 3, 10000, 30000),
       ModelCapability("google/gemini-pro-1.5", "openrouter", 2, 1250, 5000),
       ModelCapability("anthropic/claude-3-haiku", "openrouter", 2, 250, 1250),
       ModelCapability("meta-llama/llama-3.1-70b-instruct", "openrouter", 2, 520, 750),
       ModelCapability("openai/gpt-4o-mini", "openrouter", 1, 150, 600),
       ModelCapability("google/gemini-flash-1.5", "openrouter", 1, 75, 300),
       ModelCapability("meta-llama/llama-3.1-8b-instruct", "openrouter", 1, 50, 80),
       ModelCapability("qwen/qwen-2.5-72b-instruct", "openrouter", 1, 350, 400),
       ModelCapability("local", "local", 1, 0, 0) >>

RegistryIds == {MODEL_REGISTRY[i].model_id : i \in 1..Len(MODEL_REGISTRY)}

\* MODEL_REGISTRY.get(model_id): the position of the entry, 0 for None
get_model_info(model_id) ==
    IF \E i \in 1..Len(registry) : registry[i].model_id = model_id
    THEN (CHOOSE i \in 1..Len(registry) : registry[i].model_id = model_id)
    ELSE 0

get_models_up_to_difficulty(difficulty) ==
    SelectSeq(registry, LAMBDA m : m.difficulty <= difficulty)

get_models_by_difficulty(difficulty) ==
    SelectSeq(registry, LAMBDA m : m.difficulty = difficulty)

InputCost(m) == m.cost_per_1m_input

Cost(m) == m.cost_per_1m_input + m.cost_per_1m_output

RECURSIVE InsertBeforeTies(_, _)
InsertBeforeTies(s, m) ==
    IF s = <<>> THEN <<m>>
    ELSE IF Cost(Head(s)) < Cost(m)
         THEN <<Head(s)>> \o InsertBeforeTies(Tail(s), m)
         ELSE <<m>> \o s

RECURSIVE SortedInsert(_, _)
SortedInsert(s, m) ==
    IF s = <<>> THEN <<m>>
    ELSE IF Cost(Head(s)) <= Cost(m)
         THEN <<Head(s)>> \o SortedInsert(Tail(s), m)
         ELSE <<m>> \o s

Unranked(models) == models

RECURSIVE rank_models_by_cost(_)
rank_models_by_cost(models) ==
    IF models = <<>> THEN <<>>
    ELSE SortedInsert(rank_models_by_cost(SubSeq(models, 1, Len(models) - 1)),
                      models[Len(models)])

Ids(models) == [i \in 1..Len(models) |-> models[i].model_id]

SortInPlace(models) ==
    [held |-> rank_models_by_cost(models), out |-> rank_models_by_cost(models)]

\* registry.py:228  sorted(models, key=...): the result is a new list, held is
\* the list of the caller after the call
SortedCall(models) ==
    [held |-> models, out |-> rank_models_by_cost(models)]

\* ------------------------------------------------------ llm/litellm_adapter.py
\* ModelConfig, with the fields that routing reads
ModelConfig(id, diff, cin, cout, auth, base) ==
    [model_id |-> id, difficulty |-> diff, cost_per_1m_input |-> cin,
     cost_per_1m_output |-> cout, auth_env |-> auth, base_url_env |-> base]

\* os.getenv(name): None for a variable that is not set
getenv(environ, name) == environ[name]

\* ModelConfig.api_key
api_key(m, environ) ==
    IF m.auth_env = None THEN None ELSE getenv(environ, m.auth_env)

\* ModelConfig.base_url
base_url(m, environ) ==
    IF m.base_url_env = None THEN None ELSE getenv(environ, m.base_url_env)

\* truth value of an optional string: None and "" are false
Truthy(v) == v # None /\ v # ""

is_available_at_load(m, environ) ==
    ~(m.auth_env # None) /\ ~(m.base_url_env # None)

\* ModelConfig.is_available, read from the environment at each use
is_available(m, environ) ==
    IF m.auth_env # None /\ ~Truthy(api_key(m, environ)) THEN FALSE
    ELSE IF m.base_url_env # None /\ ~Truthy(base_url(m, environ)) THEN FALSE
    ELSE TRUE

\* ModelRegistry.get_by_difficulty
get_by_difficulty(models, difficulty, environ) ==
    SelectSeq(models,
              LAMBDA m : m.difficulty = difficulty /\ is_available(m, environ))

\* ModelRegistry.rank_by_cost
rank_by_cost(models) == rank_models_by_cost(models)

\* ----------------------------------------------------- llm/cost_tracker.py
ThresholdNum == 8
ThresholdDen == 10

RECURSIVE SumCosts(_)
SumCosts(cs) == IF cs = <<>> THEN 0 ELSE Head(cs).cost + SumCosts(Tail(cs))

keep_all_costs(cs, day) == cs

cleanup_old_costs(cs, day) == SelectSeq(cs, LAMBDA e : e.day = day)

get_today_total(cs, day) == SumCosts(cleanup_old_costs(cs, day))

should_use_cheaper_strictly(cs, limit, day, tenths) ==
    ThresholdDen * get_today_total(cs, day) > limit * tenths

\* should_use_cheaper_model(threshold): the threshold is given in tenths
should_use_cheaper_model_at(cs, limit, day, tenths) ==
    ThresholdDen * get_today_total(cs, day) >= limit * tenths

\* should_use_cheaper_model(): threshold: float = 0.8
should_use_cheaper_model(cs, limit, day) ==
    should_use_cheaper_model_at(cs, limit, day, ThresholdNum)

add_cost_overwrite(cs, cost, day) == <<[day |-> day, cost |-> cost]>>

add_cost(cs, cost, day) ==
    cleanup_old_costs(Append(cs, [day |-> day, cost |-> cost]), day)

unclamped_remaining_budget(cs, limit, day) == limit - get_today_total(cs, day)

\* max(0.0, self._daily_limit - self.get_today_total())
get_remaining_budget(cs, limit, day) ==
    IF limit - get_today_total(cs, day) > 0
    THEN limit - get_today_total(cs, day) ELSE 0

is_strictly_over_budget(cs, limit, day) == get_today_total(cs, day) > limit

is_over_budget(cs, limit, day) == get_today_total(cs, day) >= limit

unguarded_cost_summary(cs, limit, day) ==
    [today_total |-> get_today_total(cs, day),
     daily_limit |-> limit,
     remaining |-> get_remaining_budget(cs, limit, day),
     percent_used |-> [num |-> get_today_total(cs, day) * 100, den |-> limit]]

\* percent_used is the fraction num / den, 0 / 1 when the limit is not positive
get_cost_summary(cs, limit, day) ==
    [today_total |-> get_today_total(cs, day),
     daily_limit |-> limit,
     remaining |-> get_remaining_budget(cs, limit, day),
     percent_used |-> IF limit > 0
                      THEN [num |-> get_today_total(cs, day) * 100, den |-> limit]
                      ELSE [num |-> 0, den |-> 1]]

\* get_cost_summary reads the date twice, once in each get_today_total it
\* calls (cost_tracker.py:79 and 83 through 52): day is the date of the first
\* read and later the date of the second
get_cost_summary_over(cs, limit, day, later) ==
    [today_total |-> get_today_total(cs, day),
     daily_limit |-> limit,
     remaining |-> get_remaining_budget(cleanup_old_costs(cs, day), limit, later),
     percent_used |-> IF limit > 0
                      THEN [num |-> get_today_total(cs, day) * 100, den |-> limit]
                      ELSE [num |-> 0, den |-> 1]]

\* the last query made of the registry: its argument as the caller holds it
\* after the call, and its result
NoQuery ==
    [op |-> "none", arg |-> <<>>, held |-> <<>>, out |-> <<>>,
     again |-> FALSE, last |-> <<>>]

\* ----------------------------------------------- LLMRouter.complete, state
NoResult ==
    [kind |-> "none", msg |-> "", last_error |-> 0, model |-> None,
     provider |-> None, cost_usd |-> 0, attempt |-> 0]

IdleCall ==
    [pc |-> "idle", entry |-> None,
     req |-> [task |-> None, preferred |-> None, model |-> None],
     task |-> None, preferred |-> None, difficulty |-> 0,
     available |-> <<>>, idx |-> 0, last_error |-> 0, depth |-> 0,
     attempts |-> <<>>, gathers |-> <<>>, started |-> 0, result |-> NoResult]

\* router.py:86  TASK_DIFFICULTY.get(task, 2) if task else 2
EasyWhenAbsent(task) ==
    IF task = None THEN 1
    ELSE IF task \in DOMAIN TASK_DIFFICULTY THEN TASK_DIFFICULTY[task] ELSE 1

TaskDifficulty(task) ==
    IF task = None THEN 2
    ELSE IF task \in DOMAIN TASK_DIFFICULTY THEN TASK_DIFFICULTY[task] ELSE 2

CollapsedDifficulty(difficulty) == 1

\* router.py:92  max(1, difficulty - 1)
DowngradedDifficulty(difficulty) ==
    IF difficulty - 1 > 1 THEN difficulty - 1 ELSE 1

\* router.py:89-90
ShouldDowngrade(difficulty) ==
    /\ hasTracker
    /\ should_use_cheaper_model(costs, daily_limit, today)
    /\ difficulty > 1

UnguardedDifficulty(requested) ==
    IF hasTracker /\ should_use_cheaper_model(costs, daily_limit, today)
    THEN requested - 1 ELSE requested

Undegraded(requested) == requested

\* router.py:89-96: the difficulty the candidates are gathered at
ResolveDifficulty(requested) ==
    IF ShouldDowngrade(requested) THEN DowngradedDifficulty(requested)
    ELSE requested

\* router.py:102  [m for m in candidates if m.provider in self._providers]
FilterAvailable(models, registered) ==
    SelectSeq(models, LAMBDA m : m.provider \in registered)

NoFallback(registered) == <<>>

\* router.py:115
FallbackModels(registered) == FilterAvailable(registry, registered)

StepDownTask(difficulty) ==
    IF difficulty = 3 THEN "summarization" ELSE "simple"

\* router.py:111, 176  task=TaskType.SIMPLE
EasierTask(difficulty) == "simple"

\* router.py:125-128
PromotePreferred(available, preferred) ==
    IF preferred # None
    THEN SelectSeq(available, LAMBDA m : m.provider = preferred)
         \o SelectSeq(available, LAMBDA m : m.provider # preferred)
    ELSE available

\* router.py:139  config.model or model_cap.model_id
ModelToUse(model, model_cap) ==
    IF model # None THEN model ELSE model_cap.model_id

NoProvidersAsAllFailed ==
    [NoResult EXCEPT !.kind = "error", !.msg = "All providers failed"]

\* router.py:117  raise RuntimeError("No providers registered")
NoProvidersRegistered ==
    [NoResult EXCEPT !.kind = "error", !.msg = "No providers registered"]

SwallowedFailure(last_error) ==
    [NoResult EXCEPT !.kind = "response", !.last_error = last_error]

\* router.py:179  raise RuntimeError(f"All providers failed. Last error: ...")
AllProvidersFailed(last_error) ==
    [NoResult EXCEPT !.kind = "error", !.msg = "All providers failed",
                     !.last_error = last_error]

WholeResponse(st) == st.result

\* What the caller of a finished call has: complete() returns the response,
\* complete_simple() returns response.content (router.py:186), and an
\* exception passes through both. The content of a response is identified by
\* the ordinal of the attempt that produced it.
Returned(st) ==
    IF st.entry = "complete_simple" /\ st.result.kind = "response"
    THEN [kind |-> "content", attempt |-> st.result.attempt]
    ELSE st.result

\* A finished call: returned with a response, or raised an error.
Finish(st, result) ==
    [st EXCEPT !.pc = IF result.kind = "response" THEN "returned" ELSE "raised",
               !.result = result]

RaceCalls(st, i) ==
    [st EXCEPT !.pc = "awaiting", !.idx = i,
               !.started = @ + (Len(st.available) - i + 1)]

IssueCallRechecked(st, i) ==
    [st EXCEPT !.pc = "awaiting", !.idx = i, !.started = @ + 1,
               !.difficulty = IF i > 1 THEN ResolveDifficulty(@) ELSE @]

\* router.py:134-142: an iteration of the loop awaits the provider call of
\* candidate i; started counts the provider calls made by this call
IssueCall(st, i) ==
    [st EXCEPT !.pc = "awaiting", !.idx = i, !.started = @ + 1]

\* router.py:85-131: complete() from its entry to the first provider call,
\* through the recursive calls of lines 110 and 175.
RECURSIVE EnterPass(_, _, _, _)
EnterPass(st, task, preferred, depth) ==
    LET requested == TaskDifficulty(task)
        difficulty == ResolveDifficulty(requested)
        candidates == get_models_by_difficulty(difficulty)
        available == FilterAvailable(candidates, providers)
        fallback == IF available = <<>> /\ difficulty <= 1
                    THEN FallbackModels(providers) ELSE <<>>
        usable == IF available = <<>> THEN rank_models_by_cost(fallback)
                  ELSE available
        ordered == rank_models_by_cost(PromotePreferred(usable, preferred))
        log == Append(st.gathers,
                      [depth |-> depth, task |-> task, requested |-> requested,
                       pressure |-> (hasTracker /\ should_use_cheaper_model(
                                        costs, daily_limit, today)),
                       registered |-> providers, difficulty |-> difficulty,
                       found |-> Ids(available), list |-> Ids(ordered)])
        here == [st EXCEPT !.task = task, !.preferred = preferred,
                           !.difficulty = difficulty, !.depth = depth,
                           !.gathers = log, !.last_error = 0,
                           !.available = ordered, !.idx = 0]
    IN  IF available = <<>> /\ difficulty > 1
        THEN EnterPass(here, EasierTask(difficulty), None, depth + 1)
        ELSE IF ordered = <<>>
        THEN Finish(here, NoProvidersRegistered)
        ELSE IssueCall(here, 1)

\* The provider call in flight: router.py:136-152.
Outstanding(st) ==
    [provider |-> st.available[st.idx].provider,
     model |-> ModelToUse(st.req.model, st.available[st.idx]),
     cand |-> st.available[st.idx].model_id,
     depth |-> st.depth, tier |-> st.difficulty, task |-> st.task]

Logged(st, ok, cost) ==
    Append(st.attempts,
           [provider |-> Outstanding(st).provider, model |-> Outstanding(st).model,
            cand |-> Outstanding(st).cand, depth |-> st.depth,
            tier |-> st.difficulty, ok |-> ok, cost_usd |-> cost,
            error |-> None])

RaiseOnExhausted(st) == Finish(st, AllProvidersFailed(st.last_error))

OnExhaustedKeepingPin(st) ==
    IF st.difficulty > 1
    THEN EnterPass(st, EasierTask(st.difficulty), st.preferred, st.depth + 1)
    ELSE Finish(st, AllProvidersFailed(st.last_error))

\* router.py:172-179
OnExhausted(st) ==
    IF st.difficulty > 1
    THEN EnterPass(st, EasierTask(st.difficulty), None, st.depth + 1)
    ELSE Finish(st, AllProvidersFailed(st.last_error))

KeepFirstError(previous, e) == IF previous = 0 THEN e ELSE previous

\* router.py:169  last_error = e
RecordError(previous, e) == e

\* the attempt in flight raised an exception of the given kind
Raised(st, kind) ==
    [Logged(st, FALSE, 0) EXCEPT ![Len(st.attempts) + 1].error = kind]

FatalOnAuthentication(st, kind) ==
    LET e == Len(st.attempts) + 1
        failed == [st EXCEPT !.attempts = Raised(st, kind),
                             !.last_error = RecordError(st.last_error, e)]
    IN  IF kind = "authentication"
        THEN Finish(failed, AllProvidersFailed(failed.last_error))
        ELSE IF st.idx < Len(st.available)
        THEN IssueCall(failed, st.idx + 1)
        ELSE OnExhausted(failed)

\* router.py:165-170 and the loop's next step: `except Exception` takes an
\* exception of any kind; the error is identified by the ordinal of the
\* attempt that raised it.
OnFailure(st, kind) ==
    LET e == Len(st.attempts) + 1
        failed == [st EXCEPT !.attempts = Raised(st, kind),
                             !.last_error = RecordError(st.last_error, e)]
    IN  IF st.idx < Len(st.available)
        THEN IssueCall(failed, st.idx + 1)
        ELSE OnExhausted(failed)

OnSuccessKeepTrying(st, cost) ==
    LET logged == [st EXCEPT !.attempts = Logged(st, TRUE, cost)]
    IN  IF st.idx < Len(st.available)
        THEN IssueCall(logged, st.idx + 1)
        ELSE Finish(logged,
                    [NoResult EXCEPT !.kind = "response",
                                     !.model = Outstanding(st).model,
                                     !.provider = Outstanding(st).provider,
                                     !.cost_usd = cost,
                                     !.attempt = Len(st.attempts) + 1])

\* router.py:142-163: the response of the provider is returned at once.
OnSuccess(st, cost) ==
    Finish([st EXCEPT !.attempts = Logged(st, TRUE, cost)],
           [NoResult EXCEPT !.kind = "response",
                            !.model = Outstanding(st).model,
                            !.provider = Outstanding(st).provider,
                            !.cost_usd = cost,
                            !.attempt = Len(st.attempts) + 1])

\* ------------------------------------------------------------------ inputs
\* thresholds of should_use_cheaper_model, in tenths
ThresholdTenths == {0, 5, 6, 8, 10}
\* one task category of each difficulty, and no task at all
TaskInputs == {"chat", "summarization", "simple", None}
PreferredInputs == {None, "claude", "openrouter"}
ModelInputs == {None, "claude-opus-4-20250514", "nonexistent-model"}
\* a cost recorded in the ledger outside complete(): enough to bring the
\* tracker of a router to its threshold
SetupCosts == {4}
\* the daily limit of the tracker a router is given
RouteLimits == {5}
\* exceptions a provider call raises: rejected credentials, a timeout, a
\* response that cannot be parsed
ErrorKinds == {"authentication", "timeout", "malformed"}
RouteErrors == {"timeout"}

\* environment variables that model configurations name, and their values:
\* not set, set to the empty string, set to a value
EnvVars == {"API_KEY", "BASE_URL"}
EnvValues == {None, "", "secret"}

\* a loaded ModelRegistry: one model of each kind of requirement
CONFIGS ==
    << ModelConfig("cloud", 1, 150, 600, "API_KEY", None),
       ModelConfig("gateway", 1, 75, 300, "API_KEY", "BASE_URL"),
       ModelConfig("selfhosted", 1, 0, 0, None, "BASE_URL"),
       ModelConfig("open", 2, 50, 80, None, None) >>

SeqsUpTo(S, n) == UNION {[1..k -> S] : k \in 0..n}

\* lists of distinct models handed to rank_models_by_cost: two models of
\* equal total cost, and two that the input price alone orders the other way
\* round
RankPool ==
    {MODEL_REGISTRY[2], MODEL_REGISTRY[4], MODEL_REGISTRY[7], MODEL_REGISTRY[8]}
RankInputs ==
    {models \in SeqsUpTo(RankPool, MaxRankLen) :
        \A i, j \in 1..Len(models) : i # j => models[i] # models[j]}
DifficultyInputs == 0..4
InfoInputs == {"claude-opus-4-20250514", "nonexistent-model"}

\* ----------------------------------------------------------------- actions
Init ==
    /\ providers = {}
    /\ hasTracker = FALSE
    /\ daily_limit = 0
    /\ costs = <<>>
    /\ today = 0
    /\ call = [c \in Callers |-> IdleCall]
    /\ added = <<>>
    /\ registry = MODEL_REGISTRY
    /\ env = [v \in EnvVars |-> None]
    /\ query = NoQuery

\* complete() hands its result to the coroutine that awaits it in the same
\* step of the event loop: nothing else runs between the two.
Delivering == \E c \in Callers : call[c].pc \in {"returned", "raised"}

\* the caller has the response or the exception
Collect(c) ==
    /\ call[c].pc \in {"returned", "raised"}
    /\ call' = [call EXCEPT ![c] = IdleCall]
    /\ UNCHANGED <<providers, hasTracker, daily_limit, costs, today, added, registry, env, query>>

\* LLMRouter.register
Register(p) ==
    /\ ~Delivering
    /\ providers' = providers \cup {p}
    /\ UNCHANGED <<hasTracker, daily_limit, costs, today, call, added, registry, env, query>>

\* LLMRouter.set_cost_tracker(CostTracker(daily_limit=limit))
SetCostTracker(limit) ==
    /\ ~Delivering
    /\ hasTracker' = TRUE
    /\ daily_limit' = limit
    /\ costs' = <<>>
    /\ added' = <<>>
    /\ UNCHANGED <<providers, today, call, registry, env, query>>

AddCostClipped(cost) ==
    /\ ~Delivering
    /\ hasTracker
    /\ Len(cleanup_old_costs(costs, today)) < MaxLedger
    /\ costs' = add_cost(costs,
                         IF cost < get_remaining_budget(costs, daily_limit, today)
                         THEN cost
                         ELSE get_remaining_budget(costs, daily_limit, today),
                         today)
    /\ added' = Append(added, [day |-> today, cost |-> cost])
    /\ UNCHANGED <<providers, hasTracker, daily_limit, today, call, registry, env, query>>

\* CostTracker.add_cost called on the tracker directly
AddCost(cost) ==
    /\ ~Delivering
    /\ hasTracker
    /\ Len(cleanup_old_costs(costs, today)) < MaxLedger
    /\ costs' = add_cost(costs, cost, today)
    /\ added' = Append(added, [day |-> today, cost |-> cost])
    /\ UNCHANGED <<providers, hasTracker, daily_limit, today, call, registry, env, query>>

\* the calendar date changes
NextDay ==
    /\ ~Delivering
    /\ today < MaxDay
    /\ today' = today + 1
    /\ UNCHANGED <<providers, hasTracker, daily_limit, costs, call, added, registry, env, query>>

\* a read of the tracker: get_today_total, and get_remaining_budget,
\* is_over_budget, should_use_cheaper_model, get_cost_summary that call it
ReadTracker ==
    /\ ~Delivering
    /\ hasTracker
    /\ costs' = cleanup_old_costs(costs, today)
    /\ UNCHANGED <<providers, hasTracker, daily_limit, today, call, added, registry, env, query>>

\* the dates the clock can show at a later read within one call
DatesFrom(day) == IF day < MaxDay THEN {day, day + 1} ELSE {day}

\* CostTracker.get_cost_summary is called; midnight may pass between its two
\* reads of the date
GetCostSummary(later) ==
    /\ ~Delivering
    /\ hasTracker
    /\ later \in DatesFrom(today)
    /\ today' = later
    /\ costs' = cleanup_old_costs(cleanup_old_costs(costs, today), later)
    /\ query' = [NoQuery EXCEPT !.op = "get_cost_summary",
                                !.out = get_cost_summary_over(costs, daily_limit,
                                                              today, later)]
    /\ UNCHANGED <<providers, hasTracker, daily_limit, call, added, registry, env>>

\* the environment of the process changes: a variable is set or removed
PutEnv(v, val) ==
    /\ ~Delivering
    /\ env' = [env EXCEPT ![v] = val]
    /\ UNCHANGED <<providers, hasTracker, daily_limit, costs, today, call, added,
                   registry, query>>

\* get_models_by_difficulty(d)
QueryDifficulty(d) ==
    /\ ~Delivering
    /\ query' = [NoQuery EXCEPT !.op = "get_models_by_difficulty", !.arg = d,
                                !.out = get_models_by_difficulty(d)]
    /\ UNCHANGED <<providers, hasTracker, daily_limit, costs, today, call, added,
                   registry, env>>

\* get_model_info(model_id)
QueryInfo(id) ==
    /\ ~Delivering
    /\ query' = [NoQuery EXCEPT !.op = "get_model_info", !.arg = id,
                                !.out = IF get_model_info(id) = 0 THEN None
                                        ELSE registry[get_model_info(id)]]
    /\ UNCHANGED <<providers, hasTracker, daily_limit, costs, today, call, added,
                   registry, env>>

\* rank_models_by_cost(models)
QueryRank(models) ==
    /\ ~Delivering
    /\ query' = [NoQuery EXCEPT !.op = "rank_models_by_cost", !.arg = models,
                                !.held = SortedCall(models).held,
                                !.out = SortedCall(models).out]
    /\ UNCHANGED <<providers, hasTracker, daily_limit, costs, today, call, added,
                   registry, env>>

\* ModelRegistry.get_by_difficulty(d) of the loaded configurations; when the
\* query before was the same one, again is set and last is its result
QueryAvailable(d) ==
    /\ ~Delivering
    /\ query' = [NoQuery EXCEPT !.op = "get_by_difficulty", !.arg = d,
                                !.out = Ids(get_by_difficulty(CONFIGS, d, env)),
                                !.again = (query.op = "get_by_difficulty"
                                            /\ query.arg = d),
                                !.last = IF query.op = "get_by_difficulty"
                                            /\ query.arg = d
                                         THEN query.out ELSE <<>>]
    /\ UNCHANGED <<providers, hasTracker, daily_limit, costs, today, call, added,
                   registry, env>>

Pruned == IF hasTracker THEN cleanup_old_costs(costs, today) ELSE costs

UntrackedCost(cost) == costs

\* router.py:155-156  if self._cost_tracker: self._cost_tracker.add_cost(...)
TrackCost(cost) == IF hasTracker THEN add_cost(costs, cost, today) ELSE costs

\* LLMRouter.complete is called
Route(c, task, preferred, model) ==
    /\ ~Delivering
    /\ call[c].pc = "idle"
    /\ call' = [call EXCEPT ![c] =
                  EnterPass([IdleCall EXCEPT !.entry = "complete",
                                             !.req = [task |-> task,
                                                      preferred |-> preferred,
                                                      model |-> model]],
                            task, preferred, 0)]
    /\ costs' = Pruned
    /\ UNCHANGED <<providers, hasTracker, daily_limit, today, added, registry, env, query>>

\* LLMRouter.complete_simple is called: router.py:181-185, complete() with
\* LLMConfig(model=None), no preferred provider and the task given
complete_simple(c, task) ==
    /\ ~Delivering
    /\ call[c].pc = "idle"
    /\ call' = [call EXCEPT ![c] =
                  EnterPass([IdleCall EXCEPT !.entry = "complete_simple",
                                             !.req = [task |-> task,
                                                      preferred |-> None,
                                                      model |-> None]],
                            task, None, 0)]
    /\ costs' = Pruned
    /\ UNCHANGED <<providers, hasTracker, daily_limit, today, added, registry, env, query>>

\* the provider call in flight raises an exception of the given kind
ProviderFails(c, kind) ==
    /\ ~Delivering
    /\ call[c].pc = "awaiting"
    /\ call' = [call EXCEPT ![c] = OnFailure(call[c], kind)]
    /\ costs' = IF call'[c].depth > call[c].depth THEN Pruned ELSE costs
    /\ UNCHANGED <<providers, hasTracker, daily_limit, today, added, registry, env, query>>

\* the provider call in flight returns a response of the given cost
ProviderSucceeds(c, cost) ==
    /\ ~Delivering
    /\ call[c].pc = "awaiting"
    /\ hasTracker => Len(cleanup_old_costs(costs, today)) < MaxLedger
    /\ call' = [call EXCEPT ![c] = OnSuccess(call[c], cost)]
    /\ costs' = TrackCost(cost)
    /\ added' = IF hasTracker THEN Append(added, [day |-> today, cost |-> cost])
                 ELSE added
    /\ UNCHANGED <<providers, hasTracker, daily_limit, today, registry, env, query>>

Setup ==
    \/ \E p \in ProviderType : Register(p)
    \/ \E limit \in RouteLimits : SetCostTracker(limit)
    \/ \E cost \in SetupCosts : AddCost(cost)

Calls(c) ==
    \/ \E task \in TaskInputs, preferred \in PreferredInputs, model \in ModelInputs :
          Route(c, task, preferred, model)
    \/ \E kind \in RouteErrors : ProviderFails(c, kind)
    \/ \E cost \in CostValues : ProviderSucceeds(c, cost)
    \/ Collect(c)

\* one caller, one calendar day
Next == Setup \/ Calls("a")

Spec == Init /\ [][Next]_vars

\* the tracker alone, over the change of the calendar date
LedgerNext ==
    \/ \E limit \in DailyLimits : SetCostTracker(limit)
    \/ \E cost \in CostValues : AddCost(cost)
    \/ ReadTracker
    \/ NextDay
    \/ \E later \in 0..MaxDay : GetCostSummary(later)

SpecLedger == Init /\ [][LedgerNext]_vars

\* two coroutines call complete() on the same router and tracker; the date
\* changes between their calls, so that the calls in flight share a day
ConcProviders == {"claude"}
ConcTasks == {"summarization"}
ConcLimits == {5}

ConcCalls(c) ==
    \/ \E task \in ConcTasks : Route(c, task, None, None)
    \/ \E kind \in RouteErrors : ProviderFails(c, kind)
    \/ \E cost \in CostValues : ProviderSucceeds(c, cost)
    \/ Collect(c)

ConcNext ==
    \/ \E p \in ConcProviders : Register(p)
    \/ \E limit \in ConcLimits : SetCostTracker(limit)
    \/ ReadTracker
    \/ (\A c \in Callers : call[c].pc = "idle") /\ NextDay
    \/ \E c \in Callers : ConcCalls(c)

SpecConc == Init /\ [][ConcNext]_vars

\* the registries and their queries, beside a router and its tracker
CatalogLimits == {5}
CatalogCosts == {4}
CatalogProviders == {"local"}
CatalogTasks == {"simple"}

CatalogRouting ==
    \/ \E p \in CatalogProviders : Register(p)
    \/ \E limit \in CatalogLimits : SetCostTracker(limit)
    \/ \E cost \in CatalogCosts : AddCost(cost)
    \/ \E task \in CatalogTasks : Route("a", task, None, None)
    \/ \E kind \in RouteErrors : ProviderFails("a", kind)
    \/ \E cost \in CatalogCosts : ProviderSucceeds("a", cost)
    \/ Collect("a")

CatalogNext ==
    \/ \E v \in EnvVars, val \in EnvValues : PutEnv(v, val)
    \/ \E d \in DifficultyInputs : QueryDifficulty(d)
    \/ \E id \in InfoInputs : QueryInfo(id)
    \/ \E models \in RankInputs : QueryRank(models)
    \/ \E d \in DifficultyInputs : QueryAvailable(d)
    \/ CatalogRouting

SpecCatalog == Init /\ [][CatalogNext]_vars

\* one provider with several models at each difficulty, a tracker, and
\* provider calls that raise exceptions of every kind
FailureProviders == {"openrouter"}
FailureTasks == {"summarization"}
FailureLimits == {5}
FailureCosts == {4}

FailureNext ==
    \/ \E p \in FailureProviders : Register(p)
    \/ \E limit \in FailureLimits : SetCostTracker(limit)
    \/ \E task \in FailureTasks : Route("a", task, None, None)
    \/ \E kind \in ErrorKinds : ProviderFails("a", kind)
    \/ \E cost \in FailureCosts : ProviderSucceeds("a", cost)
    \/ Collect("a")

SpecFailures == Init /\ [][FailureNext]_vars

\* calls whose provider calls all come back: a provider with models at every
\* difficulty and one with a model at difficulty 1 only
TerminationProviders == {"openrouter", "local"}
TerminationTasks == {"chat", "simple"}
TerminationLimits == {5}
TerminationCosts == {4}

\* the provider call in flight comes back, with a response or an exception
Responds(c) ==
    \/ \E cost \in TerminationCosts : ProviderSucceeds(c, cost)
    \/ \E kind \in RouteErrors : ProviderFails(c, kind)

TerminationNext ==
    \/ \E p \in TerminationProviders : Register(p)
    \/ \E limit \in TerminationLimits : SetCostTracker(limit)
    \/ \E task \in TerminationTasks : Route("a", task, None, None)
    \/ Responds("a")
    \/ Collect("a")

\* calls of complete_simple, with the default task and with a task given
SimpleProviders == {"claude", "openrouter"}
DefaultTask == "simple"
SimpleTasks == {DefaultTask, "summarization"}
SimpleLimits == {5}
SimpleCosts == {4}

SimpleNext ==
    \/ \E p \in SimpleProviders : Register(p)
    \/ \E limit \in SimpleLimits : SetCostTracker(limit)
    \/ \E task \in SimpleTasks : complete_simple("a", task)
    \/ \E kind \in RouteErrors : ProviderFails("a", kind)
    \/ \E cost \in SimpleCosts : ProviderSucceeds("a", cost)
    \/ Collect("a")

SpecSimple == Init /\ [][SimpleNext]_vars

\* a registry of two models, one at difficulty 1 and one at difficulty 3,
\* put in the place of MODEL_REGISTRY, with a tracker limit that a single
\* cost takes to 85%
ScenarioCatalog ==
    << ModelCapability("scenario-easy", "local", 1, 100, 200),
       ModelCapability("scenario-hard", "claude", 3, 3000, 15000) >>
ScenarioProviders == {"local", "claude"}
ScenarioTasks == {"chat"}
ScenarioLimits == {20}
ScenarioPreload == {17}
ScenarioCosts == {1}

InitScenario ==
    /\ providers = {}
    /\ hasTracker = FALSE
    /\ daily_limit = 0
    /\ costs = <<>>
    /\ today = 0
    /\ call = [c \in Callers |-> IdleCall]
    /\ added = <<>>
    /\ registry = ScenarioCatalog
    /\ env = [v \in EnvVars |-> None]
    /\ query = NoQuery

ScenarioNext ==
    \/ \E p \in ScenarioProviders : Register(p)
    \/ \E limit \in ScenarioLimits : SetCostTracker(limit)
    \/ \E cost \in ScenarioPreload : AddCost(cost)
    \/ \E task \in ScenarioTasks : Route("a", task, None, None)
    \/ \E kind \in RouteErrors : ProviderFails("a", kind)
    \/ \E cost \in ScenarioCosts : ProviderSucceeds("a", cost)
    \/ Collect("a")

SpecScenario == InitScenario /\ [][ScenarioNext]_vars

\* two coroutines inside complete() at once, one provider with two models at
\* difficulty 3, and responses whose cost takes the tracker over its threshold
SnapshotProviders == {"claude"}
SnapshotTasks == {"chat"}
SnapshotLimits == {5}
SnapshotCosts == {4}

SnapshotCalls(c) ==
    \/ \E task \in SnapshotTasks : Route(c, task, None, None)
    \/ \E kind \in RouteErrors : ProviderFails(c, kind)
    \/ \E cost \in SnapshotCosts : ProviderSucceeds(c, cost)
    \/ Collect(c)

SnapshotNext ==
    \/ \E p \in SnapshotProviders : Register(p)
    \/ \E limit \in SnapshotLimits : SetCostTracker(limit)
    \/ \E c \in Callers : SnapshotCalls(c)

SpecSnapshot == Init /\ [][SnapshotNext]_vars

\* every provider call that is awaited comes back
SpecTermination ==
    Init /\ [][TerminationNext]_vars /\ WF_vars(Responds("a"))

\* ------------------------------------------------------------- properties
\* the registry entry of a model id
CapTable ==
    [id \in RegistryIds |->
        MODEL_REGISTRY[CHOOSE i \in 1..Len(MODEL_REGISTRY) :
                          MODEL_REGISTRY[i].model_id = id]]

Cap(model_id) == CapTable[model_id]

Finished(st) == st.pc \in {"returned", "raised"}

Last(s) == s[Len(s)]

\* the attempts of the pass at a depth of the recursion, in order
AttemptsAt(st, depth) == SelectSeq(st.attempts, LAMBDA a : a.depth = depth)

\* every candidate of the pass gathered as g was attempted and failed
Exhausted(st, g) ==
    /\ g.list # <<>>
    /\ Len(AttemptsAt(st, g.depth)) = Len(g.list)
    /\ \A i \in 1..Len(g.list) : ~AttemptsAt(st, g.depth)[i].ok

\* C1: a call of complete() whose provider calls all return ends in one of
\* three ways and no other: the response of a provider call that succeeded,
\* the error "No providers registered", or the error "All providers failed";
\* it returns normally only with the response of a successful provider call.
C1_ThreeOutcomes ==
    \A c \in Callers :
        LET st == call[c] IN
        /\ st.pc \in {"idle", "awaiting", "returned", "raised"}
        /\ Finished(st) <=> st.result.kind # "none"
        /\ st.pc = "returned" =>
              /\ st.result.kind = "response"
              /\ st.attempts # <<>>
              /\ Last(st.attempts).ok
              /\ st.result.attempt = Len(st.attempts)
        /\ st.pc = "raised" =>
              /\ st.result.kind = "error"
              /\ st.result.msg \in {"No providers registered", "All providers failed"}
              /\ \A i \in 1..Len(st.attempts) : ~st.attempts[i].ok

C1_Witness ==
    \E c \in Callers :
        /\ call[c].pc = "raised"
        /\ call[c].result.msg = "All providers failed"
        /\ Len(call[c].attempts) >= 2

\* C2: when the tracker asks for a cheaper model at the start of a call and
\* the task maps to difficulty t > 1, the candidates are gathered at exactly
\* t - 1: a difficulty-3 request is gathered at 2, never at 1, and when
\* difficulty-2 models are available they are the candidates.
C2_SingleStepDegrade ==
    \A c \in Callers :
        LET g == call[c].gathers IN
        (g # <<>> /\ g[1].pressure /\ g[1].requested > 1) =>
            /\ g[1].difficulty = g[1].requested - 1
            /\ g[1].found # <<>> =>
                  /\ g[1].list # <<>>
                  /\ \A i \in 1..Len(g[1].list) :
                        Cap(g[1].list[i]).difficulty = g[1].requested - 1

C2_Witness ==
    \E c \in Callers :
        LET st == call[c] IN
        /\ st.gathers # <<>>
        /\ st.gathers[1].pressure
        /\ st.gathers[1].requested = 3
        /\ st.gathers[1].found # <<>>
        /\ st.attempts # <<>>
        /\ st.attempts[1].tier = 2

\* C3: when the difficulty in use is 2 or 3 and no model of it is available,
\* the next candidate list is gathered at difficulty 1 and holds models of
\* difficulty 1 only; difficulty 2 is never gathered as a step in between.
C3_EmptyTierJumpsToFloor ==
    \A c \in Callers :
        LET g == call[c].gathers IN
        \A i \in 1..Len(g) :
            (g[i].difficulty \in {2, 3} /\ g[i].found = <<>>) =>
                /\ i < Len(g)
                /\ g[i + 1].difficulty = 1
                /\ g[i + 1].depth = g[i].depth + 1
                /\ \A k \in 1..Len(g[i + 1].list) :
                      Cap(g[i + 1].list[k]).difficulty = 1

C3_Witness ==
    \E c \in Callers :
        LET g == call[c].gathers IN
        /\ Len(g) = 2
        /\ g[1].difficulty = 3
        /\ g[1].found = <<>>
        /\ g[2].list # <<>>
        /\ call[c].attempts # <<>>

\* C4: when every candidate of a pass at difficulty t > 1 was attempted and
\* failed, complete() calls itself with the task of difficulty 1 (after
\* difficulty 3 it does not pass through difficulty 2), and what that pass
\* returns or raises is the result of the whole call.
C4_ExhaustionJumpsToFloor ==
    \A c \in Callers :
        LET st == call[c]
            g == st.gathers
        IN  \A i \in 1..Len(g) :
                (g[i].difficulty > 1 /\ Exhausted(st, g[i])) =>
                    /\ i < Len(g)
                    /\ g[i + 1].task = "simple"
                    /\ g[i + 1].requested = 1
                    /\ g[i + 1].difficulty = 1
                    /\ g[i + 1].depth = g[i].depth + 1
                    /\ st.depth = g[i + 1].depth
                    /\ st.pc = "returned" =>
                          st.attempts[st.result.attempt].depth = g[i + 1].depth
                    /\ st.pc = "raised" =>
                          /\ st.result.msg = "All providers failed"
                          /\ st.attempts[st.result.last_error].depth = g[i + 1].depth

C4_Witness ==
    \E c \in Callers :
        LET st == call[c] IN
        /\ Finished(st)
        /\ Len(st.gathers) = 2
        /\ st.gathers[1].difficulty = 3
        /\ Exhausted(st, st.gathers[1])
        /\ Len(AttemptsAt(st, 1)) >= 1

\* C5: when the difficulty in use is 1 and every candidate attempted fails,
\* the call ends with "All providers failed", and the error it carries is the
\* one raised by the last candidate attempted in that pass.
C5_LastErrorCarried ==
    \A c \in Callers :
        LET st == call[c]
            g == st.gathers
        IN  /\ (g # <<>> /\ Last(g).difficulty = 1 /\ Exhausted(st, Last(g))) =>
                  /\ st.pc = "raised"
                  /\ st.result.msg = "All providers failed"
                  /\ st.result.last_error = Len(st.attempts)
                  /\ Last(st.attempts).cand = Last(Last(g).list)
                  /\ Last(st.attempts).depth = Last(g).depth
            /\ (st.pc = "raised" /\ st.result.msg = "All providers failed") =>
                  /\ Last(g).difficulty = 1
                  /\ Exhausted(st, Last(g))

C5_Witness ==
    \E c \in Callers :
        LET st == call[c] IN
        /\ st.pc = "raised"
        /\ st.result.msg = "All providers failed"
        /\ Len(AttemptsAt(st, st.depth)) >= 2
        /\ st.result.last_error = Len(st.attempts)

\* the registry models a set of registered providers can serve
\* the registry models that a set of registered providers serves
ServableTable ==
    [registered \in SUBSET ProviderType |->
        {MODEL_REGISTRY[i].model_id :
            i \in {k \in 1..Len(MODEL_REGISTRY) :
                      MODEL_REGISTRY[k].provider \in registered}}]

Servable(registered) == ServableTable[registered]

Range(s) == {s[i] : i \in 1..Len(s)}

NonDecreasingCost(ids) ==
    \A i, j \in 1..Len(ids) : i < j => Cost(Cap(ids[i])) <= Cost(Cap(ids[j]))

\* C6: while no registry model is available at any difficulty, a call for a
\* task of any difficulty ends with "No providers registered", makes no
\* provider call, and never ends with "All providers failed".
C6_FatalOnEmptyCatalog ==
    \A c \in Callers :
        LET st == call[c] IN
        Servable(providers) = {} =>
            /\ st.pc \in {"idle", "raised"}
            /\ st.attempts = <<>>
            /\ st.pc = "raised" => st.result.msg = "No providers registered"

C6_Witness ==
    \E c \in Callers :
        LET st == call[c] IN
        /\ Servable(providers) = {}
        /\ st.pc = "raised"
        /\ st.req.task = "chat"
        /\ st.result.msg = "No providers registered"

\* C7 as stated: when the difficulty in use is 1 and no model of difficulty 1
\* is available, the call ends with "No providers registered" and attempts no
\* model, whatever models of difficulty 2 and 3 are available.
C7_FatalWhenFloorEmpty ==
    \A c \in Callers :
        LET st == call[c]
            g == st.gathers
        IN  (g # <<>> /\ Last(g).difficulty = 1 /\ Last(g).found = <<>>) =>
                /\ st.pc = "raised"
                /\ st.result.msg = "No providers registered"
                /\ AttemptsAt(st, Last(g).depth) = <<>>

\* C7 amended: when the difficulty in use is 1 and no model of difficulty 1
\* is available, the call ends with "No providers registered", attempting no
\* model, exactly when no model of any difficulty is available; otherwise
\* its candidates are all the available models of the registry, cheapest
\* first, and it attempts them.
C7_FloorEmptyFallsBackToAll ==
    \A c \in Callers :
        LET st == call[c]
            g == st.gathers
        IN  (g # <<>> /\ Last(g).difficulty = 1 /\ Last(g).found = <<>>) =>
                /\ Range(Last(g).list) = Servable(Last(g).registered)
                /\ Len(Last(g).list) = Cardinality(Servable(Last(g).registered))
                /\ NonDecreasingCost(Last(g).list)
                /\ IF Servable(Last(g).registered) = {}
                   THEN /\ st.pc = "raised"
                        /\ st.result.msg = "No providers registered"
                        /\ st.attempts = <<>>
                   ELSE /\ st.pc # "idle"
                        /\ st.result.msg # "No providers registered"
                        /\ st.pc = "awaiting" =>
                              Outstanding(st).cand = Last(g).list[st.idx]
                        /\ \A i \in 1..Len(AttemptsAt(st, Last(g).depth)) :
                              AttemptsAt(st, Last(g).depth)[i].cand = Last(g).list[i]

C7_Witness ==
    \E c \in Callers :
        LET st == call[c]
            g == st.gathers
        IN  /\ g # <<>>
            /\ Last(g).difficulty = 1
            /\ Last(g).found = <<>>
            /\ Len(AttemptsAt(st, Last(g).depth)) >= 2
            /\ \E i \in 1..Len(Last(g).list) : Cap(Last(g).list[i]).difficulty = 3

\* C8: once a provider call of a call of complete() succeeds, the call makes
\* no further provider call, also when candidates remain untried, and the
\* response it returns is the response of that provider call.
C8_SuccessShortCircuits ==
    \A c \in Callers :
        LET st == call[c] IN
        \A i \in 1..Len(st.attempts) :
            st.attempts[i].ok =>
                /\ i = Len(st.attempts)
                /\ st.pc = "returned"
                /\ st.result.kind = "response"
                /\ st.result.attempt = i
                /\ st.result.model = st.attempts[i].model
                /\ st.result.provider = st.attempts[i].provider
                /\ st.result.cost_usd = st.attempts[i].cost_usd

C8_Witness ==
    \E c \in Callers :
        LET st == call[c] IN
        /\ st.pc = "returned"
        /\ Len(st.attempts) >= 2
        /\ st.idx < Len(st.available)

\* C9: in a call that returned a response, the unit cost (input price plus
\* output price) of the candidate that served it is at most the unit cost of
\* every available model of the difficulty in use that was not attempted; in
\* every pass the candidates are attempted in non-decreasing unit cost.
C9_CheapestAvailableFirst ==
    \A c \in Callers :
        LET st == call[c]
            g == st.gathers
        IN  /\ \A d \in 0..st.depth :
                  NonDecreasingCost([i \in 1..Len(AttemptsAt(st, d)) |->
                                        AttemptsAt(st, d)[i].cand])
            /\ st.pc = "returned" =>
                  \A id \in Servable(Last(g).registered) :
                      (/\ Cap(id).difficulty = Last(g).difficulty
                       /\ \A i \in 1..Len(st.attempts) : st.attempts[i].cand # id)
                      => Cost(Cap(Last(st.attempts).cand)) <= Cost(Cap(id))

C9_Witness ==
    \E c \in Callers :
        LET st == call[c] IN
        /\ st.pc = "returned"
        /\ Len(AttemptsAt(st, st.depth)) >= 2
        /\ st.idx < Len(st.available)
        /\ Cost(Cap(st.attempts[1].cand)) < Cost(Cap(Last(st.attempts).cand))
        /\ \E id \in Servable(Last(st.gathers).registered) :
              /\ Cap(id).difficulty = st.difficulty
              /\ \A i \in 1..Len(st.attempts) : st.attempts[i].cand # id

\* the first provider call of a call of complete()
FirstCall(st) == IF st.attempts # <<>> THEN st.attempts[1] ELSE Outstanding(st)

\* C10: when config.model names a registry model whose provider is
\* registered, the first provider call of the call is for that model at its
\* provider, whatever its difficulty and its cost, and a preferred provider
\* that serves a candidate serves the first one; the ranking by cost orders
\* only the candidates behind the first.
C10_PinHonored ==
    \A c \in Callers :
        LET st == call[c] IN
        (st.pc = "awaiting" \/ st.attempts # <<>>) =>
            /\ (/\ st.req.model \in RegistryIds
                /\ Cap(st.req.model).provider \in st.gathers[1].registered)
               => /\ FirstCall(st).model = st.req.model
                  /\ FirstCall(st).provider = Cap(st.req.model).provider
            /\ (/\ st.req.preferred # None
                /\ Len(st.gathers) = 1
                /\ \E i \in 1..Len(st.gathers[1].list) :
                      Cap(st.gathers[1].list[i]).provider = st.req.preferred)
               => Cap(st.gathers[1].list[1]).provider = st.req.preferred

\* the model id of the request names no registry model, or a model whose
\* provider was not registered when the call was made
UnusablePin(st) ==
    /\ st.req.model # None
    /\ st.gathers # <<>>
    /\ \/ st.req.model \notin RegistryIds
       \/ Cap(st.req.model).provider \notin st.gathers[1].registered

\* C11: when the model id of the request names a model that is not in the
\* registry or whose provider is not registered, the call behaves as if no
\* model id had been given: every provider call is handed the model id of the
\* candidate it was made for.
C11_UnusablePinIgnored ==
    \A c \in Callers :
        LET st == call[c] IN
        UnusablePin(st) =>
            /\ \A i \in 1..Len(st.attempts) :
                  st.attempts[i].model = st.attempts[i].cand
            /\ st.pc = "awaiting" => Outstanding(st).model = Outstanding(st).cand

\* the entries of a sequence of dated amounts that carry the given day
OnDay(s, day) == SelectSeq(s, LAMBDA e : e.day = day)

RECURSIVE Total(_)
Total(s) == IF s = <<>> THEN 0 ELSE s[1].cost + Total(Tail(s))

\* C12: a step in which complete() returns a response appends exactly one
\* entry to the ledger of the tracker, of the cost of that response; a step
\* in which a provider call fails, the call is started or the call ends in an
\* error appends none, so the total of the day grows by the cost of each
\* response returned and by nothing else the router does.
C12_LedgerAccounting ==
    [][\A c \in Callers :
          (hasTracker /\ call'[c] # call[c] /\ call'[c].pc # "idle") =>
              IF call'[c].pc = "returned"
              THEN /\ OnDay(costs', today) =
                         Append(OnDay(costs, today),
                                [day |-> today,
                                 cost |-> call'[c].result.cost_usd])
                   /\ Total(OnDay(costs', today)) =
                         Total(OnDay(costs, today)) + call'[c].result.cost_usd
              ELSE /\ OnDay(costs', today) = OnDay(costs, today)
                   /\ Total(OnDay(costs', today)) = Total(OnDay(costs, today))
      ]_vars

C12_Witness ==
    \E c \in Callers :
        /\ hasTracker
        /\ call[c].pc = "returned"
        /\ Len(call[c].attempts) >= 2
        /\ call[c].result.cost_usd = 4
        /\ Len(costs) = 2
        /\ costs[2].cost = 4

\* C13: however the calls of complete() by two coroutines, the calls of
\* add_cost and the reads of the tracker interleave, every amount passed to
\* add_cost on the current day is in the ledger exactly once, in the order of
\* the calls, and the total of the day is the sum of these amounts.
C13_NoLostEntries ==
    hasTracker =>
        /\ OnDay(costs, today) = OnDay(added, today)
        /\ get_today_total(costs, today) = Total(OnDay(added, today))

\* both coroutines had a provider call in flight, and both responses are in
\* the ledger
C13_Witness ==
    /\ hasTracker
    /\ call["a"].pc = "returned"
    /\ call["b"].pc = "awaiting"
    /\ Len(call["b"].attempts) >= 1
    /\ Len(OnDay(added, today)) = 2
    /\ added[Len(added)].cost = call["a"].result.cost_usd
    /\ today > 0
    /\ Len(added) > 2

\* C14: within one call of complete() at most one provider call is in flight
\* at any moment, exactly while the call awaits, and a provider call is
\* started only after every provider call made before it in this call of
\* complete() has returned with an error.
C14_OneAtATime ==
    \A c \in Callers :
        LET st == call[c]
            inFlight == st.started - Len(st.attempts)
        IN  /\ inFlight \in {0, 1}
            /\ inFlight = 1 <=> st.pc = "awaiting"
            /\ \A i \in 1..(st.started - 1) :
                  /\ i <= Len(st.attempts)
                  /\ ~st.attempts[i].ok

C14_Witness ==
    \E c \in Callers :
        /\ call[c].pc = "awaiting"
        /\ call[c].started = 3
        /\ Len(call[c].attempts) = 2
        /\ Len(call[c].available) >= 4

\* the registry models of a difficulty that registered providers serve
ServableAtTable ==
    [registered \in SUBSET ProviderType, difficulty \in 0..3 |->
        {id \in Servable(registered) : Cap(id).difficulty = difficulty}]

ServableAt(registered, difficulty) == ServableAtTable[registered, difficulty]

\* C15: whatever the ledger holds, also a total at or above the daily limit,
\* complete() is not refused and does not fail because of the budget: it ends
\* in an error only when no model is available or every provider call
\* failed, and makes a provider call whenever a model is available.  The
\* budget only lowers a difficulty above 1 by one: a difficulty-1 request is
\* gathered at difficulty 1 with the same candidates under pressure or not.
C15_BudgetNeverAnError ==
    \A c \in Callers :
        LET st == call[c] IN
        /\ \A i \in 1..Len(st.gathers) :
              LET g == st.gathers[i] IN
              /\ g.requested = 1 =>
                    /\ g.difficulty = 1
                    /\ Range(g.list) =
                          IF ServableAt(g.registered, 1) # {}
                          THEN ServableAt(g.registered, 1)
                          ELSE Servable(g.registered)
              /\ g.requested > 1 =>
                    g.difficulty = g.requested - (IF g.pressure THEN 1 ELSE 0)
        /\ st.pc = "raised" =>
              \/ /\ st.result.msg = "No providers registered"
                 /\ Servable(Last(st.gathers).registered) = {}
              \/ /\ st.result.msg = "All providers failed"
                 /\ st.attempts # <<>>
                 /\ \A i \in 1..Len(st.attempts) : ~st.attempts[i].ok
        /\ (st.gathers # <<>> /\ Servable(Last(st.gathers).registered) # {}) =>
              st.started >= 1

\* a difficulty-1 request made with the day's total at the limit is routed
C15_Witness ==
    \E c \in Callers :
        LET st == call[c] IN
        /\ hasTracker
        /\ daily_limit > 0
        /\ is_over_budget(costs, daily_limit, today)
        /\ st.pc = "awaiting"
        /\ st.gathers[1].requested = 1
        /\ st.gathers[1].pressure
        /\ st.gathers[1].list # <<>>

\* the preferred provider of the pass gathered as g: the recursive calls of
\* complete() pass preferred=None
PreferredOf(st, g) == IF g.depth = 0 THEN st.req.preferred ELSE None

\* 0 for a model of the preferred provider, 1 for any other
Behind(id, preferred) ==
    IF preferred # None /\ Cap(id).provider = preferred THEN 0 ELSE 1

\* the candidates a pass must have for the providers registered and the
\* difficulty it gathers at
CandidatesFor(registered, difficulty) ==
    IF ServableAt(registered, difficulty) # {}
    THEN ServableAt(registered, difficulty)
    ELSE IF difficulty <= 1 THEN Servable(registered) ELSE {}

\* the provider calls of the pass gathered as g follow its list, in order
FollowsList(st, g) ==
    /\ Len(AttemptsAt(st, g.depth)) <= Len(g.list)
    /\ \A k \in 1..Len(AttemptsAt(st, g.depth)) :
          AttemptsAt(st, g.depth)[k].cand = g.list[k]

\* C16 as stated: the candidates of a pass are fixed by the registry, the
\* providers registered, the ledger and the request, the provider calls follow
\* them in order, and candidates of equal cost are in registry order.
C16_TiesByCatalogOrder ==
    \A c \in Callers :
        \A n \in 1..Len(call[c].gathers) :
            LET g == call[c].gathers[n] IN
            /\ Range(g.list) = CandidatesFor(g.registered, g.difficulty)
            /\ FollowsList(call[c], g)
            /\ \A i, j \in 1..Len(g.list) :
                  i < j =>
                      \/ Cost(Cap(g.list[i])) < Cost(Cap(g.list[j]))
                      \/ /\ Cost(Cap(g.list[i])) = Cost(Cap(g.list[j]))
                         /\ get_model_info(g.list[i]) < get_model_info(g.list[j])

\* C16: the candidates of a pass are fixed by the registry, the providers
\* registered, the difficulty gathered at and the preferred provider of the
\* request: they are the available models of that difficulty, each once, in
\* increasing cost; candidates of equal cost are ordered with the models of
\* the preferred provider first and in registry order otherwise (each
\* candidate is before its successor in this order, which is total, so the
\* list is the only one of its members); the provider calls of the pass
\* follow this list in order.
C16_Deterministic ==
    \A c \in Callers :
        \A n \in 1..Len(call[c].gathers) :
            LET g == call[c].gathers[n]
                p == PreferredOf(call[c], g)
            IN
            /\ Range(g.list) = CandidatesFor(g.registered, g.difficulty)
            /\ FollowsList(call[c], g)
            /\ \A i \in 1..(Len(g.list) - 1) :
                  LET m == g.list[i]
                      n1 == g.list[i + 1]
                  IN  \/ Cost(Cap(m)) < Cost(Cap(n1))
                      \/ /\ Cost(Cap(m)) = Cost(Cap(n1))
                         /\ \/ Behind(m, p) < Behind(n1, p)
                            \/ /\ Behind(m, p) = Behind(n1, p)
                               /\ get_model_info(m) < get_model_info(n1)

\* two candidates of equal cost were both called: in registry order without a
\* preferred provider
C16_Witness ==
    \E c \in Callers :
        LET st == call[c] IN
        /\ st.req.preferred = None
        /\ \E k \in 1..(Len(st.attempts) - 1) :
              /\ st.attempts[k].depth = st.attempts[k + 1].depth
              /\ Cost(Cap(st.attempts[k].cand)) = Cost(Cap(st.attempts[k + 1].cand))
              /\ st.attempts[k].provider # st.attempts[k + 1].provider

\* the sum of the amounts passed to add_cost on the current day
AddedToday == Total(OnDay(added, today))

\* C17: an entry of another day than the current one contributes to none of
\* get_today_total, get_remaining_budget, is_over_budget,
\* should_use_cheaper_model and get_cost_summary: each is computed from the
\* amounts added today; and when add_cost or a read returns, the ledger is
\* exactly the entries added today, in the order they were added.
C17_DateScoping ==
    /\ [](hasTracker =>
            /\ get_today_total(costs, today) = AddedToday
            /\ get_remaining_budget(costs, daily_limit, today) =
                  (IF daily_limit > AddedToday THEN daily_limit - AddedToday ELSE 0)
            /\ is_over_budget(costs, daily_limit, today) <=>
                  AddedToday >= daily_limit
            /\ should_use_cheaper_model(costs, daily_limit, today) <=>
                  ThresholdDen * AddedToday >= daily_limit * ThresholdNum
            /\ get_cost_summary(costs, daily_limit, today).today_total = AddedToday
            /\ get_cost_summary(costs, daily_limit, today).remaining =
                  (IF daily_limit > AddedToday THEN daily_limit - AddedToday ELSE 0)
            /\ get_cost_summary(costs, daily_limit, today).percent_used.num =
                  (IF daily_limit > 0 THEN AddedToday * 100 ELSE 0))
    /\ [][(ReadTracker \/ \E cost \in CostValues : AddCost(cost)) =>
              /\ costs' = OnDay(added', today')
              /\ \A i \in 1..Len(costs') : costs'[i].day = today']_vars

\* entries of the day before are in the history, the ledger was pruned and
\* holds an entry of the current day
C17_Witness ==
    /\ hasTracker
    /\ today = 1
    /\ Len(OnDay(added, 0)) = 2
    /\ Len(costs) = 1
    /\ costs[1].day = 1
    /\ get_today_total(costs, today) < Total(added)

\* C18: the total of the day is the sum of the amounts of all calls of
\* add_cost made on the current day on this tracker, 0 for a new tracker; a
\* call add_cost(a) raises the total by exactly a, also past the daily limit.
C18_TotalIsSumOfAdded ==
    /\ [](hasTracker => get_today_total(costs, today) = AddedToday)
    /\ [][(\E limit \in DailyLimits : SetCostTracker(limit)) =>
              get_today_total(costs', today') = 0]_vars
    /\ [][\A cost \in CostValues :
              AddCost(cost) =>
                  get_today_total(costs', today') =
                      get_today_total(costs, today) + cost]_vars

C18_Witness ==
    /\ hasTracker
    /\ daily_limit = 5
    /\ Len(costs) = 2
    /\ get_today_total(costs, today) = 8
    /\ today = 1

\* C19: should_use_cheaper_model(threshold) is true exactly when the total of
\* the day is at least daily_limit * threshold, false below it and true from
\* equality on; without an argument the threshold is 0.8.
C19_ShouldDegradeThreshold ==
    hasTracker =>
        /\ \A t \in ThresholdTenths :
              should_use_cheaper_model_at(costs, daily_limit, today, t) <=>
                  ~(10 * AddedToday < daily_limit * t)
        /\ should_use_cheaper_model(costs, daily_limit, today) <=>
              ~(10 * AddedToday < daily_limit * 8)

\* the total is exactly 0.8 of the limit: true at 0.8, false at 1.0
C19_Witness ==
    /\ hasTracker
    /\ daily_limit = 5
    /\ AddedToday = 4
    /\ should_use_cheaper_model(costs, daily_limit, today)
    /\ ~should_use_cheaper_model_at(costs, daily_limit, today, 10)
    /\ today = 1
    /\ Len(added) > 1

\* C20: is_over_budget is true exactly when the total of the day is at least
\* the daily limit; a total equal to the limit is over budget.
C20_OverBudgetAtLimit ==
    hasTracker =>
        (is_over_budget(costs, daily_limit, today) <=> ~(AddedToday < daily_limit))

\* the total equals the limit
C20_Witness ==
    /\ hasTracker
    /\ daily_limit = 5
    /\ AddedToday = 5
    /\ is_over_budget(costs, daily_limit, today)
    /\ Len(costs) = 2

\* C21: get_remaining_budget is max(0, daily_limit - total of the day) in
\* every state of the tracker: never negative, and 0 whenever the total has
\* reached or passed the limit.
C21_RemainingBudget ==
    hasTracker =>
        LET remaining == get_remaining_budget(costs, daily_limit, today) IN
        /\ remaining >= 0
        /\ AddedToday >= daily_limit => remaining = 0
        /\ AddedToday < daily_limit => remaining + AddedToday = daily_limit

\* the total is past a positive limit
C21_Witness ==
    /\ hasTracker
    /\ daily_limit = 5
    /\ AddedToday = 8
    /\ get_remaining_budget(costs, daily_limit, today) = 0

\* C22: get_cost_summary never divides by zero: with a daily limit of 0 it
\* reports percent_used 0 whatever was spent, with a positive limit it
\* reports percent_used = total / limit * 100; in both cases it reports the
\* total of the day, the limit and the remaining budget.
C22_SummaryNeverFails ==
    hasTracker =>
        LET summary == get_cost_summary(costs, daily_limit, today) IN
        /\ summary.percent_used.den # 0
        /\ daily_limit = 0 => summary.percent_used.num = 0
        /\ daily_limit > 0 =>
              summary.percent_used.num * daily_limit =
                  AddedToday * 100 * summary.percent_used.den
        /\ summary.today_total = AddedToday
        /\ summary.daily_limit = daily_limit
        /\ summary.remaining =
              (IF AddedToday < daily_limit THEN daily_limit - AddedToday ELSE 0)

\* money was spent under a limit of 0
C22_Witness ==
    /\ hasTracker
    /\ daily_limit = 0
    /\ AddedToday = 5
    /\ get_cost_summary(costs, daily_limit, today).percent_used.num = 0

\* the sum of the two prices of a model
TotalCost(m) == m.cost_per_1m_input + m.cost_per_1m_output

\* the number of places of a sequence that hold m
Count(s, m) == Cardinality({i \in 1..Len(s) : s[i] = m})

\* the members of a sequence that cost the same as m, in their order
SameCost(s, m) == SelectSeq(s, LAMBDA x : TotalCost(x) = TotalCost(m))

\* C23: rank_models_by_cost returns a permutation of the list it is given,
\* in non-decreasing order of cost_per_1m_input + cost_per_1m_output, in
\* which the models of any one total cost are in the order they had in the
\* given list.
C23_RankByCost ==
    query.op = "rank_models_by_cost" =>
        LET given == query.arg
            out == query.out
        IN  /\ Len(out) = Len(given)
            /\ \A m \in RankPool : Count(out, m) = Count(given, m)
            /\ \A i \in 1..(Len(out) - 1) : TotalCost(out[i]) <= TotalCost(out[i + 1])
            /\ \A m \in RankPool : SameCost(out, m) = SameCost(given, m)

\* two models of equal cost given against registry order stay as given, and
\* a cheaper model given last comes first
C23_Witness ==
    /\ query.op = "rank_models_by_cost"
    /\ query.arg = <<MODEL_REGISTRY[4], MODEL_REGISTRY[2]>>
    /\ query.out = <<MODEL_REGISTRY[4], MODEL_REGISTRY[2]>>

\* the place of an entry in MODEL_REGISTRY
IndexOf(m) == CHOOSE i \in 1..Len(MODEL_REGISTRY) : MODEL_REGISTRY[i] = m

\* C24: get_models_by_difficulty(t) returns exactly the registry entries of
\* difficulty t: every one of them, each once, none of another difficulty,
\* in the order of the registry.
C24_FilterByTier ==
    query.op = "get_models_by_difficulty" =>
        LET out == query.out IN
        /\ \A i \in 1..Len(MODEL_REGISTRY) :
              MODEL_REGISTRY[i].difficulty = query.arg <=>
                  \E k \in 1..Len(out) : out[k] = MODEL_REGISTRY[i]
        /\ \A k \in 1..Len(out) :
              \E i \in 1..Len(MODEL_REGISTRY) : out[k] = MODEL_REGISTRY[i]
        /\ \A k \in 1..(Len(out) - 1) : IndexOf(out[k]) < IndexOf(out[k + 1])

C24_Witness ==
    /\ query.op = "get_models_by_difficulty"
    /\ query.arg = 2
    /\ Len(query.out) = 4
    /\ query.out[1].model_id = "claude-haiku-3-5-20241022"

\* C25: the registry is never changed after it is loaded: no call of
\* complete(), no operation of the tracker and no query of the registry adds,
\* removes or changes an entry, and rank_models_by_cost leaves the list it is
\* given as it was.
C25_CatalogNeverMutates ==
    /\ [][registry' = registry]_vars
    /\ [](registry = MODEL_REGISTRY)
    /\ [](query.op = "rank_models_by_cost" => query.held = query.arg)

\* an unsorted list was ranked, beside a call of complete() that returned
\* and two entries in the ledger
C25_Witness ==
    /\ query.op = "rank_models_by_cost"
    /\ query.out # query.arg
    /\ query.held = query.arg
    /\ call["a"].pc = "returned"
    /\ Len(costs) = 2
    /\ registry = MODEL_REGISTRY

\* the environment variable has a value that is not empty
HasValue(v) == env[v] # None /\ env[v] # ""

\* the loaded configurations of a difficulty whose variables all have a value
Credentialed(d) ==
    {CONFIGS[i].model_id :
        i \in {k \in 1..Len(CONFIGS) :
                  /\ CONFIGS[k].difficulty = d
                  /\ \A v \in {CONFIGS[k].auth_env, CONFIGS[k].base_url_env} \ {None} :
                        HasValue(v)}}

\* a step that asks for the available configurations of a difficulty
AvailabilityQueried ==
    /\ query'.op = "get_by_difficulty"
    /\ UNCHANGED <<providers, hasTracker, daily_limit, costs, today, call, added,
                   registry, env>>

C27_TierResolution ==
    \A c \in Callers :
        call[c].pc # "idle" =>
            LET g == call[c].gathers[1]
                task == call[c].req.task
            IN  /\ g.depth = 0
                /\ g.task = task
                /\ task \in {"chat", "reasoning"} => g.requested = 3
                /\ task \in {"fact_extraction", "summarization", "background"} =>
                      g.requested = 2
                /\ task \in {"simple", "tool_call", "inter_agent",
                              "importance_scoring"} => g.requested = 1
                /\ task \notin TaskType => g.requested = 2
                /\ ~g.pressure => g.difficulty = g.requested

\* a call without a task starts at difficulty 2 and its first provider call
\* goes to a model of that difficulty
C27_Witness ==
    /\ call["a"].pc = "awaiting"
    /\ call["a"].req.task = None
    /\ call["a"].gathers[1].requested = 2
    /\ call["a"].gathers[1].difficulty = 2
    /\ call["a"].depth = 0
    /\ Cap(call["a"].available[1].model_id).difficulty = 2

\* the step in which the provider call of caller c raises
AttemptFailed(c) ==
    /\ Len(call'[c].attempts) = Len(call[c].attempts) + 1
    /\ ~Last(call'[c].attempts).ok

\* C28: whatever the kind of the exception a provider call raises
\* (authentication, timeout, malformed response), complete() reacts the same
\* way: it adds nothing to the ledger, it returns no response in that step,
\* it goes on to the next candidate of the list when one remains, and it
\* raises only when the list of a difficulty-1 pass is used up.
C28_UniformFailure ==
    [][\A c \in Callers :
          AttemptFailed(c) =>
              /\ Last(call'[c].attempts).error \in ErrorKinds
              /\ added' = added
              /\ costs' = costs
              /\ call'[c].pc # "returned"
              /\ call[c].idx < Len(call[c].available) =>
                    /\ call'[c].pc = "awaiting"
                    /\ call'[c].available = call[c].available
                    /\ call'[c].idx = call[c].idx + 1
                    /\ call'[c].depth = call[c].depth
              /\ call'[c].pc = "raised" =>
                    /\ call[c].idx = Len(call[c].available)
                    /\ call[c].difficulty = 1]_vars

\* exceptions of the three kinds at three candidates in a row, the fourth
\* candidate being called, and an untouched ledger
C28_Witness ==
    /\ call["a"].pc = "awaiting"
    /\ hasTracker
    /\ Len(call["a"].attempts) = 3
    /\ call["a"].attempts[1].error = "authentication"
    /\ call["a"].attempts[2].error = "timeout"
    /\ call["a"].attempts[3].error = "malformed"
    /\ \A i \in 1..3 : call["a"].attempts[i].cand = call["a"].available[i].model_id
    /\ call["a"].idx = 4
    /\ Len(costs) = 1
    /\ added = <<[day |-> today, cost |-> 4]>>

\* the number of candidates of the passes a call has entered
RECURSIVE PassBound(_)
PassBound(gathers) ==
    IF gathers = <<>> THEN 0
    ELSE Len(gathers[1].list) + PassBound(Tail(gathers))

\* a call has entered one pass or two, the second only from a first pass
\* above difficulty 1 and always for task SIMPLE at difficulty 1, and it has
\* made no more provider calls than its passes have candidates
BoundedPasses(st) ==
    /\ Len(st.gathers) \in {1, 2}
    /\ st.depth <= 1
    /\ \A i \in 1..Len(st.gathers) : st.gathers[i].depth = i - 1
    /\ st.gathers[1].difficulty = 1 => Len(st.gathers) = 1
    /\ Len(st.gathers) = 2 =>
          /\ st.gathers[2].task = "simple"
          /\ st.gathers[2].requested = 1
          /\ st.gathers[2].difficulty = 1
    /\ Len(st.attempts) <= PassBound(st.gathers)
    /\ st.started <= PassBound(st.gathers)

\* C29: complete() calls itself at most once: the depth of recursion is at
\* most 1, the inner call always runs at difficulty 1 whatever the budget, a
\* pass at difficulty 1 never recurses, the provider calls of one call number
\* at most the candidates of its first pass plus those of the floor pass; and
\* when every provider call comes back, the call that awaits one finishes.
C29_Termination ==
    /\ [](\A c \in Callers : call[c].pc # "idle" => BoundedPasses(call[c]))
    /\ (call["a"].pc = "awaiting") ~> Finished(call["a"])

\* a call that used up both passes under pressure on the budget: every
\* candidate of the downgraded pass and of the floor pass raised
C29_Witness ==
    /\ call["a"].pc = "raised"
    /\ Len(call["a"].gathers) = 2
    /\ call["a"].gathers[1].pressure
    /\ call["a"].gathers[2].pressure
    /\ call["a"].gathers[1].difficulty = 2
    /\ call["a"].gathers[2].difficulty = 1
    /\ Len(call["a"].attempts) = PassBound(call["a"].gathers)
    /\ Len(call["a"].attempts) = 8

\* C30: complete_simple(prompt) is complete() with no config.model, no
\* preferred provider and task SIMPLE: its one pass runs at difficulty 1
\* whatever the budget and it never enters a second pass, every provider is
\* handed its own candidate's model id, the caller gets the content of the
\* response of the attempt that succeeded and nothing else, and the
\* RuntimeError of complete() reaches the caller as it was raised.
C30_RouteSimple ==
    \A c \in Callers :
        LET st == call[c] IN
        st.entry = "complete_simple" =>
            /\ st.req.model = None
            /\ st.req.preferred = None
            /\ st.req.task = DefaultTask =>
                  /\ Len(st.gathers) = 1
                  /\ st.depth = 0
                  /\ st.gathers[1].requested = 1
                  /\ st.gathers[1].difficulty = 1
                  /\ \A i \in 1..Len(st.attempts) :
                        st.attempts[i].model = st.attempts[i].cand
                  /\ st.pc = "returned" =>
                        /\ Last(st.attempts).ok
                        /\ Returned(st) =
                              [kind |-> "content", attempt |-> Len(st.attempts)]
                  /\ st.pc = "raised" =>
                        /\ st.result.kind = "error"
                        /\ st.result.msg \in {"No providers registered",
                                               "All providers failed"}
                        /\ Returned(st) = st.result

\* a call of complete_simple with the default task, made under pressure on
\* the budget, that returned the content of its second attempt
C30_Witness ==
    /\ call["a"].entry = "complete_simple"
    /\ call["a"].req.task = DefaultTask
    /\ call["a"].pc = "returned"
    /\ call["a"].gathers[1].pressure
    /\ Len(call["a"].attempts) = 2
    /\ Returned(call["a"]) = [kind |-> "content", attempt |-> 2]

\* C31: with a model of difficulty 1 and a model of difficulty 3 available,
\* none of difficulty 2, and today's total at or above 0.8 of the limit, a
\* call with a task of difficulty 3 gathers at difficulty 2, finds nothing,
\* enters the floor pass at difficulty 1 and calls only the difficulty-1
\* model, whose response it returns; the difficulty-3 model is not called.
C31_DegradeThenJump ==
    \A c \in Callers :
        LET st == call[c] IN
        (/\ st.pc # "idle"
         /\ st.gathers[1].requested = 3
         /\ st.gathers[1].pressure
         /\ st.gathers[1].registered = ScenarioProviders) =>
            /\ st.gathers[1].difficulty = 2
            /\ st.gathers[1].found = <<>>
            /\ Len(st.gathers) = 2
            /\ st.gathers[2].difficulty = 1
            /\ st.gathers[2].list = <<"scenario-easy">>
            /\ \A i \in 1..Len(st.attempts) :
                  /\ st.attempts[i].cand = "scenario-easy"
                  /\ st.attempts[i].model = "scenario-easy"
            /\ st.pc = "awaiting" => st.available[st.idx].model_id = "scenario-easy"
            /\ st.pc = "returned" =>
                  /\ st.result.model = "scenario-easy"
                  /\ Len(st.attempts) = 1

\* the ledger holds 17 of a limit of 20, both providers are registered, and
\* the call for task CHAT returned the response of the difficulty-1 model
C31_Witness ==
    /\ call["a"].pc = "returned"
    /\ call["a"].req.task = "chat"
    /\ call["a"].gathers[1].pressure
    /\ call["a"].gathers[1].registered = ScenarioProviders
    /\ call["a"].result.model = "scenario-easy"
    /\ added = <<[day |-> 0, cost |-> 17], [day |-> 0, cost |-> 1]>>
    /\ daily_limit = 20

\* C32: every result of get_cost_summary is one snapshot of the ledger:
\* remaining = max(0, daily_limit - today_total) and, for a positive limit,
\* percent_used = today_total / daily_limit * 100, for the total it reports.
C32_SummarySnapshot ==
    query.op = "get_cost_summary" =>
        LET summary == query.out IN
        /\ summary.remaining =
              (IF summary.today_total < summary.daily_limit
               THEN summary.daily_limit - summary.today_total ELSE 0)
        /\ summary.daily_limit > 0 =>
              summary.percent_used.num * summary.daily_limit =
                  summary.today_total * 100 * summary.percent_used.den

\* today's spending is at or above the threshold of the tracker in use
UnderPressure ==
    hasTracker /\ ThresholdDen * AddedToday >= daily_limit * ThresholdNum

\* C33: a call of complete() decides on the budget once per pass, when the
\* pass is entered: the pass records the state of the budget of that moment,
\* its difficulty follows from that record alone, and while the call awaits
\* provider calls of the pass, whatever other calls add to the ledger, its
\* difficulty and its list of candidates stay as they are.
C33_BudgetSnapshot ==
    /\ [][\A c \in Callers :
              Len(call'[c].gathers) > Len(call[c].gathers) =>
                  Last(call'[c].gathers).pressure = UnderPressure]_vars
    /\ [][\A c \in Callers :
              (/\ call[c].pc = "awaiting"
               /\ call'[c].pc = "awaiting"
               /\ call'[c].depth = call[c].depth) =>
                  /\ call'[c].difficulty = call[c].difficulty
                  /\ call'[c].available = call[c].available
                  /\ call'[c].gathers = call[c].gathers]_vars
    /\ [](\A c \in Callers :
              call[c].pc # "idle" =>
                  LET g == Last(call[c].gathers) IN
                  /\ call[c].difficulty = g.difficulty
                  /\ g.difficulty =
                        (IF g.pressure /\ g.requested > 1
                         THEN g.requested - 1 ELSE g.requested))

\* caller a entered its pass at difficulty 3 before the threshold was
\* crossed and is at its second candidate; the response to caller b crossed
\* it in between, and the call b started afterwards runs at difficulty 2
C33_Witness ==
    /\ call["a"].pc = "awaiting"
    /\ ~call["a"].gathers[1].pressure
    /\ call["a"].difficulty = 3
    /\ call["a"].idx = 2
    /\ UnderPressure
    /\ call["b"].pc = "awaiting"
    /\ call["b"].gathers[1].pressure
    /\ call["b"].difficulty = 2
    /\ call["b"].req.task = call["a"].req.task

\* C34: within one call of complete(), its floor pass included, no registry
\* model is the candidate of more than one provider call.
C34_NoModelTwice ==
    \A c \in Callers :
        \A i, j \in 1..Len(call[c].attempts) :
            i # j => call[c].attempts[i].cand # call[c].attempts[j].cand

\* C35: "No providers registered" is raised only by a call of complete()
\* that made no provider call, and a call that made at least one provider
\* call and ends in an error ends in "All providers failed".
C35_FatalKinds ==
    \A c \in Callers :
        LET st == call[c] IN
        st.pc = "raised" =>
            /\ st.result.msg \in {"No providers registered", "All providers failed"}
            /\ st.result.msg = "No providers registered" =>
                  st.attempts = <<>> /\ st.started = 0
            /\ st.attempts # <<>> => st.result.msg = "All providers failed"

\* a call whose first pass failed and whose floor pass found no model of
\* difficulty 1: it went on with the models of the registered providers and
\* ended in "All providers failed"
C35_Witness ==
    /\ call["a"].pc = "raised"
    /\ Len(call["a"].gathers) = 2
    /\ call["a"].gathers[1].found # <<>>
    /\ call["a"].gathers[2].found = <<>>
    /\ Len(call["a"].attempts) > 1
    /\ call["a"].result.msg = "All providers failed"

\* a router and its tracker over the change of the calendar date; nothing
\* reads the tracker but complete() itself
RolloverProviders == {"claude"}
RolloverTasks == {"chat"}
RolloverLimits == {5}
RolloverCosts == {4}

RolloverNext ==
    \/ \E p \in RolloverProviders : Register(p)
    \/ \E limit \in RolloverLimits : SetCostTracker(limit)
    \/ \E cost \in RolloverCosts : AddCost(cost)
    \/ NextDay
    \/ \E task \in RolloverTasks : Route("a", task, None, None)
    \/ \E kind \in RouteErrors : ProviderFails("a", kind)
    \/ \E cost \in RolloverCosts : ProviderSucceeds("a", cost)
    \/ Collect("a")

SpecRollover == Init /\ [][RolloverNext]_vars

\* the amounts added the day before crossed the threshold, and nothing has
\* been added today
QuietAfterPressure ==
    /\ hasTracker
    /\ daily_limit > 0
    /\ today > 0
    /\ ThresholdDen * Total(OnDay(added, today - 1)) >= daily_limit * ThresholdNum
    /\ AddedToday = 0

\* C36: when the amounts added on one day crossed the threshold and nothing
\* has been added on the next day, then on that next day get_today_total is
\* 0, should_use_cheaper_model is false, and a call of complete() with a
\* task of difficulty 3 gathers its candidates at difficulty 3, whether or
\* not the entries of the day before are still in the ledger.
C36_RolloverEndsDegradation ==
    /\ [](QuietAfterPressure =>
              /\ get_today_total(costs, today) = 0
              /\ ~should_use_cheaper_model(costs, daily_limit, today))
    /\ [][(/\ QuietAfterPressure
            /\ call["a"].pc = "idle"
            /\ call'["a"].pc # "idle"
            /\ TaskDifficulty(call'["a"].req.task) = 3) =>
              /\ call'["a"].gathers[1].requested = 3
              /\ ~call'["a"].gathers[1].pressure
              /\ call'["a"].gathers[1].difficulty = 3]_vars

\* day 1: 4 of 5 were added on day 0, the entry of day 0 was in the ledger
\* when today's call was made, and today's call awaits a model of
\* difficulty 3
C36_Witness ==
    /\ QuietAfterPressure
    /\ call["a"].pc = "awaiting"
    /\ call["a"].gathers[1].requested = 3
    /\ call["a"].difficulty = 3
    /\ call["a"].available[call["a"].idx].difficulty = 3

\* C37: the pass complete() re-enters at difficulty 1 keeps the request of
\* the caller, the model of its config included: a provider call of that
\* pass is handed the config's model if one is set; its task is "simple",
\* its preferred provider is none, and its candidates are in the order of
\* rank_models_by_cost of the models it gathered.
C37_FloorPassInputs ==
    /\ [][\A c \in Callers :
              (call[c].pc # "idle" /\ call'[c].pc # "idle") =>
                  call'[c].req = call[c].req]_vars
    /\ [](\A c \in Callers :
              LET st == call[c] IN
              (st.pc # "idle" /\ st.depth > 0) =>
                  /\ st.task = "simple"
                  /\ Last(st.gathers).task = "simple"
                  /\ st.preferred = None
                  /\ Ids(st.available) =
                        Ids(rank_models_by_cost(
                              IF Last(st.gathers).found # <<>>
                              THEN FilterAvailable(get_models_by_difficulty(1),
                                                   Last(st.gathers).registered)
                              ELSE FilterAvailable(registry,
                                                   Last(st.gathers).registered)))
                  /\ \A i \in 1..Len(st.attempts) :
                        st.attempts[i].depth > 0 =>
                            st.attempts[i].model =
                                (IF st.req.model # None THEN st.req.model
                                 ELSE st.attempts[i].cand))

\* a chat request with a preferred provider and a model set in its config:
\* its difficulty-3 pass failed, and in its floor pass a model of another
\* provider than the preferred one was called first, with the config's
\* model
C37_Witness ==
    /\ call["a"].pc # "idle"
    /\ call["a"].depth = 1
    /\ call["a"].req.task = "chat"
    /\ call["a"].req.preferred = "claude"
    /\ call["a"].req.model = "claude-opus-4-20250514"
    /\ call["a"].gathers[1].found # <<>>
    /\ \E i \in 1..Len(call["a"].attempts) :
          /\ call["a"].attempts[i].depth = 1
          /\ call["a"].attempts[i].provider # "claude"
          /\ call["a"].attempts[i].model = "claude-opus-4-20250514"

Tenths == 0..ThresholdDen

\* C38: with a daily limit of 0 or more and a threshold between 0 and 1,
\* whenever is_over_budget is true should_use_cheaper_model(threshold) is
\* true, and complete() would gather a request of difficulty 2 or 3 one
\* difficulty lower.
C38_OverBudgetDegrades ==
    (hasTracker /\ daily_limit >= 0 /\ is_over_budget(costs, daily_limit, today)) =>
        /\ \A tenths \in Tenths :
              should_use_cheaper_model_at(costs, daily_limit, today, tenths)
        /\ \A d \in {2, 3} : ResolveDifficulty(d) = d - 1

\* a tracker with a positive limit whose entries of today add up to the
\* limit, beside an entry of the day before
C38_Witness ==
    /\ hasTracker
    /\ daily_limit > 0
    /\ get_today_total(costs, today) = daily_limit
    /\ \E i \in 1..Len(added) : added[i].day < today

\* a router whose tracker has the daily limit 0
ZeroProviders == {"openrouter"}
ZeroTasks == {"chat", "summarization", "simple"}
ZeroLimits == {0}
ZeroCosts == {1}

ZeroNext ==
    \/ \E p \in ZeroProviders : Register(p)
    \/ \E limit \in ZeroLimits : SetCostTracker(limit)
    \/ \E cost \in ZeroCosts : AddCost(cost)
    \/ \E task \in ZeroTasks : Route("a", task, None, None)
    \/ \E kind \in RouteErrors : ProviderFails("a", kind)
    \/ \E cost \in ZeroCosts : ProviderSucceeds("a", cost)
    \/ Collect("a")

SpecZero == Init /\ [][ZeroNext]_vars

\* C39: with a daily limit of 0, is_over_budget and should_use_cheaper_model
\* are true in every state, the empty ledger included, get_cost_summary
\* reports percent_used 0, and every pass complete() enters for a task of
\* difficulty 2 or 3 is gathered one difficulty lower.
C39_ZeroLimit ==
    /\ []((hasTracker /\ daily_limit = 0) =>
              /\ is_over_budget(costs, daily_limit, today)
              /\ should_use_cheaper_model(costs, daily_limit, today)
              /\ get_cost_summary(costs, daily_limit, today).percent_used.num = 0)
    /\ [][(hasTracker /\ daily_limit = 0) =>
              \A i \in (Len(call["a"].gathers) + 1)..Len(call'["a"].gathers) :
                  LET g == call'["a"].gathers[i] IN
                  /\ g.pressure
                  /\ g.requested > 1 => g.difficulty = g.requested - 1
                  /\ g.requested = 1 => g.difficulty = 1]_vars

\* the first request to a router whose tracker has limit 0 and an empty
\* ledger: a chat request, awaiting a model of difficulty 2
C39_Witness ==
    /\ hasTracker
    /\ daily_limit = 0
    /\ added = <<>>
    /\ costs = <<>>
    /\ call["a"].pc = "awaiting"
    /\ call["a"].req.task = "chat"
    /\ Len(call["a"].gathers) = 1
    /\ call["a"].gathers[1].requested = 3
    /\ call["a"].difficulty = 2
    /\ call["a"].available[call["a"].idx].difficulty = 2
====
